---- MODULE Spec2Model ----
(***************************************************************************)
(* Model of apps/api/scripts/rerank.py: one invocation of main(), which    *)
(* reads a JSON request {"query": ..., "passages": [...]} from stdin and   *)
(* prints the JSON array of the reranker's scores on stdout.               *)
(*                                                                         *)
(* Every statement of main() is one action; pc names the line about to be  *)
(* executed.  Python and JSON values are tagged records                    *)
(*   [kind, n, s]  (n: the number, s: the items / characters / keys).      *)
(* Float scores are modelled in tenths (9 stands for 0.9).                 *)
(***************************************************************************)
EXTENDS Integers, Sequences, FiniteSets, TLC

VARIABLES pc, stdin, input_data, query, passages, reranker, pairs, scores,
          stdout, stderr, outcome, exc, trace, calls, returned

vars == <<pc, stdin, input_data, query, passages, reranker, pairs, scores,
          stdout, stderr, outcome, exc, trace, calls, returned>>

----------------------------------------------------------------------------
(* Bounds of the model *)

\* longest passages list of a request
MaxPassages == 2

----------------------------------------------------------------------------
(* Values *)

Val(k, n, s) == [kind |-> k, n |-> n, s |-> s]

\* a name that is not bound yet / a field that is not in the object
Unbound == Val("unbound", 0, <<>>)
Absent  == Val("absent", 0, <<>>)

JNull      == Val("null", 0, <<>>)
JNum(n)    == Val("num", n, <<>>)
JStr(cs)   == Val("str", 0, cs)
JList(xs)  == Val("list", 0, xs)
JObj(keys) == Val("dict", 0, keys)

\* what the scorer hands back: one float, or a list of floats
PyFloat(x)   == Val("float", x, <<>>)
PyFloats(xs) == Val("floats", 0, xs)

QueryStrings   == {"cats", ""}
PassageStrings == {"cats are mammals", "dogs bark"}

\* scores in tenths; 12 (1.2) and -3 (-0.3) lie outside [0, 1]
ScoreVals == {-3, 0, 1, 9, 10, 12}

SeqsUpTo(S, n) == UNION {[1..k -> S] : k \in 0..n}

PassageLists == {JList(xs) : xs \in SeqsUpTo(PassageStrings, MaxPassages)}

\* values a "query" field can hold: strings, and values of the wrong type
QueryValues == {JStr(<<q>>) : q \in QueryStrings} \cup {JNum(5), JNull}

\* values a "passages" field can hold: lists of strings, and wrong types
PassagesValues ==
    PassageLists \cup
    {JNull, JNum(0), JNum(7), JStr(<<>>), JStr(<<"a", "b">>),
     JObj(<<>>), JObj(<<"k">>)}

Doc(k, q, p) == [kind |-> k, query |-> q, passages |-> p]

\* what can arrive on stdin: text that is not JSON, JSON that is no object,
\* and objects with or without each of the two fields
Stdins ==
    {Doc(k, Absent, Absent) : k \in {"malformed", "null", "num", "str", "list"}}
    \cup {Doc("dict", q, p) : q \in QueryValues \cup {Absent},
                              p \in PassagesValues \cup {Absent}}

----------------------------------------------------------------------------
(* Python semantics used by main() *)

\* d[key]: KeyError on a dict without the key, TypeError on anything that
\* cannot be indexed by a string
Subscript(d, key) ==
    IF d.kind = "dict"
    THEN LET v == IF key = "query" THEN d.query ELSE d.passages
         IN  IF v = Absent THEN [exc |-> "KeyError", val |-> Unbound]
                           ELSE [exc |-> "none", val |-> v]
    ELSE [exc |-> "TypeError", val |-> Unbound]

\* truth value of a Python object
Truthy(v) ==
    CASE v.kind = "null" -> FALSE
      [] v.kind = "num"  -> v.n # 0
      [] OTHER           -> Len(v.s) > 0

\* whether `for x in v` works
Iterable(v) == v.kind \in {"list", "str", "dict"}

\* the items `for x in v` yields: elements, characters, keys
Items(v) == v.s

----------------------------------------------------------------------------
(* Helpers of main() *)

\* line 36: one [query, passage] pair per item of passages, in order
MakePairsReversed(q, ps) ==
    [i \in 1..Len(Items(ps)) |-> <<q, Items(ps)[Len(Items(ps)) + 1 - i]>>]

MakePairs(q, ps) == [i \in 1..Len(Items(ps)) |-> <<q, Items(ps)[i]>>]

\* line 39: the argument of the single compute_score call
ComputeArgFirstOnly(ps) == SubSeq(ps, 1, 1)

ComputeArg(ps) == ps

\* line 42: isinstance(scores, float)
IsFloatNever(v) == FALSE

IsFloat(v) == v.kind = "float"

\* lines 42-43: a bare float becomes a one-element list
Normalize(v) == IF IsFloat(v) THEN PyFloats(<<v.n>>) ELSE v

\* lines 29 and 45: json.dumps of a list of floats is a JSON array of the
\* same numbers, of a float a JSON number
Clamp(x) == IF x < 0 THEN 0 ELSE IF x > 10 THEN 10 ELSE x

JsonDumpsClamped(v) ==
    IF v.kind = "floats"
    THEN Val("array", 0, [i \in 1..Len(v.s) |-> Clamp(v.s[i])])
    ELSE Val("number", Clamp(v.n), <<>>)

JsonDumps(v) ==
    IF v.kind = "floats" THEN Val("array", 0, v.s)
                         ELSE Val("number", v.n, <<>>)

\* line 30: where control goes after the empty result was printed
FallThroughAfterEmpty == "L33"

AfterPrintEmpty == "return"

\* what compute_score(pairs, normalize=True) can hand back for a batch:
\* a list with one float per pair or, for a batch of one pair, a bare float
ScorerReturns(batch) ==
    {PyFloats(xs) : xs \in [1..Len(batch) -> ScoreVals]}
    \cup (IF Len(batch) = 1 THEN {PyFloat(x) : x \in ScoreVals} ELSE {})

\* an exception nobody catches leaves main()
Raise(e) ==
    /\ exc' = e
    /\ outcome' = "raised"
    /\ pc' = "done"

----------------------------------------------------------------------------
(* The invocation *)

Init ==
    /\ pc = "L18"
    /\ stdin \in Stdins
    /\ input_data = Doc("unbound", Absent, Absent)
    /\ query = Unbound
    /\ passages = Unbound
    /\ reranker = FALSE
    /\ pairs = <<>>
    /\ scores = Unbound
    /\ stdout = <<>>
    /\ stderr = <<>>
    /\ outcome = "running"
    /\ exc = "none"
    /\ trace = <<>>
    /\ calls = <<>>
    /\ returned = Unbound

\* lines 17-21: from FlagEmbedding import FlagReranker; an ImportError is
\* caught, reported on stderr and ends the process with status 1
Import ==
    /\ pc = "L18"
    /\ \/ /\ trace' = Append(trace, "import")
          /\ pc' = "L24"
          /\ UNCHANGED <<stderr, outcome, exc>>
       \/ /\ trace' = Append(trace, "import_failed")
          /\ stderr' = Append(stderr, "Error: FlagEmbedding not installed")
          /\ outcome' = "exit1"
          /\ exc' = "SystemExit"
          /\ pc' = "done"
    /\ UNCHANGED <<stdin, input_data, query, passages, reranker, pairs,
                   scores, stdout, calls, returned>>

\* line 24: input_data = json.load(sys.stdin)
ReadInput ==
    /\ pc = "L24"
    /\ trace' = Append(trace, "read")
    /\ IF stdin.kind = "malformed"
       THEN /\ Raise("JSONDecodeError")
            /\ UNCHANGED input_data
       ELSE /\ input_data' = stdin
            /\ pc' = "L25"
            /\ UNCHANGED <<outcome, exc>>
    /\ UNCHANGED <<stdin, query, passages, reranker, pairs, scores, stdout,
                   stderr, calls, returned>>

\* line 25: query = input_data['query']
GetQuery ==
    /\ pc = "L25"
    /\ LET r == Subscript(input_data, "query")
       IN  IF r.exc # "none"
           THEN /\ Raise(r.exc)
                /\ UNCHANGED query
           ELSE /\ query' = r.val
                /\ pc' = "L26"
                /\ UNCHANGED <<outcome, exc>>
    /\ UNCHANGED <<stdin, input_data, passages, reranker, pairs, scores,
                   stdout, stderr, trace, calls, returned>>

\* line 26: passages = input_data['passages']
GetPassages ==
    /\ pc = "L26"
    /\ LET r == Subscript(input_data, "passages")
       IN  IF r.exc # "none"
           THEN /\ Raise(r.exc)
                /\ UNCHANGED passages
           ELSE /\ passages' = r.val
                /\ pc' = "L28"
                /\ UNCHANGED <<outcome, exc>>
    /\ UNCHANGED <<stdin, input_data, query, reranker, pairs, scores,
                   stdout, stderr, trace, calls, returned>>

\* line 28: if not passages
CheckEmpty ==
    /\ pc = "L28"
    /\ pc' = IF Truthy(passages) THEN "L33" ELSE "L29"
    /\ UNCHANGED <<stdin, input_data, query, passages, reranker, pairs,
                   scores, stdout, stderr, outcome, exc, trace, calls,
                   returned>>

\* lines 29-30: print(json.dumps([])); return
PrintEmpty ==
    /\ pc = "L29"
    /\ stdout' = Append(stdout, JsonDumps(PyFloats(<<>>)))
    /\ pc' = AfterPrintEmpty
    /\ UNCHANGED <<stdin, input_data, query, passages, reranker, pairs,
                   scores, stderr, outcome, exc, trace, calls, returned>>

\* line 33: reranker = FlagReranker(...); a failure of the constructor is
\* not caught
InitReranker ==
    /\ pc = "L33"
    /\ \/ /\ trace' = Append(trace, "construct")
          /\ reranker' = TRUE
          /\ pc' = "L36"
          /\ UNCHANGED <<outcome, exc>>
       \/ /\ trace' = Append(trace, "construct_failed")
          /\ Raise("RerankerInitError")
          /\ UNCHANGED reranker
    /\ UNCHANGED <<stdin, input_data, query, passages, pairs, scores,
                   stdout, stderr, calls, returned>>

\* line 36: pairs = [[query, passage] for passage in passages]
BuildPairs ==
    /\ pc = "L36"
    /\ IF Iterable(passages)
       THEN /\ pairs' = MakePairs(query, passages)
            /\ pc' = "L39"
            /\ UNCHANGED <<outcome, exc>>
       ELSE /\ Raise("TypeError")
            /\ UNCHANGED pairs
    /\ UNCHANGED <<stdin, input_data, query, passages, reranker, scores,
                   stdout, stderr, trace, calls, returned>>

\* line 39: scores = reranker.compute_score(pairs, normalize=True); the
\* scorer may raise, and that is not caught
ComputeScore ==
    /\ pc = "L39"
    /\ calls' = Append(calls, ComputeArg(pairs))
    /\ \/ /\ \E r \in ScorerReturns(ComputeArg(pairs)) :
                /\ returned' = r
                /\ scores' = r
          /\ trace' = Append(trace, "score")
          /\ pc' = "L42"
          /\ UNCHANGED <<outcome, exc>>
       \/ /\ trace' = Append(trace, "score_failed")
          /\ Raise("ScorerError")
          /\ UNCHANGED <<returned, scores>>
    /\ UNCHANGED <<stdin, input_data, query, passages, reranker, pairs,
                   stdout, stderr>>

\* lines 42-43: if isinstance(scores, float): scores = [scores]
NormalizeScores ==
    /\ pc = "L42"
    /\ scores' = Normalize(scores)
    /\ pc' = "L45"
    /\ UNCHANGED <<stdin, input_data, query, passages, reranker, pairs,
                   stdout, stderr, outcome, exc, trace, calls, returned>>

\* line 45: print(json.dumps(scores))
PrintScores ==
    /\ pc = "L45"
    /\ stdout' = Append(stdout, JsonDumps(scores))
    /\ pc' = "return"
    /\ UNCHANGED <<stdin, input_data, query, passages, reranker, pairs,
                   scores, stderr, outcome, exc, trace, calls, returned>>

\* line 30, and the end of main(): the function returns normally
Return ==
    /\ pc = "return"
    /\ outcome' = "returned"
    /\ pc' = "done"
    /\ UNCHANGED <<stdin, input_data, query, passages, reranker, pairs,
                   scores, stdout, stderr, exc, trace, calls, returned>>

Next ==
    \/ Import
    \/ ReadInput
    \/ GetQuery
    \/ GetPassages
    \/ CheckEmpty
    \/ PrintEmpty
    \/ InitReranker
    \/ BuildPairs
    \/ ComputeScore
    \/ NormalizeScores
    \/ PrintScores
    \/ Return

Spec == Init /\ [][Next]_vars

----------------------------------------------------------------------------
(* Vocabulary of the properties *)

Done    == pc = "done"
Emitted == outcome = "returned"
Failed  == outcome \in {"exit1", "raised"}

EmptyArray == Val("array", 0, <<>>)

\* the request carries a list of strings under "passages"
ListRequest == stdin.kind = "dict" /\ stdin.passages.kind = "list"

\* the numbers the scorer handed back, as a sequence
ReturnedNumbers == IF returned.kind = "float" THEN <<returned.n>> ELSE returned.s

AcquireFailures == {"import_failed", "construct_failed"}
AcquireSteps    == {"import", "import_failed", "construct", "construct_failed"}
ScoreSteps      == {"score", "score_failed"}

Happened(events) == \E i \in 1..Len(trace) : trace[i] \in events

InUnit(xs) == \A i \in 1..Len(xs) : xs[i] >= 0 /\ xs[i] <= 10

----------------------------------------------------------------------------
(* Properties *)

\* C1: when passages is a non-empty list of N strings and the scorer hands
\* back a list of N scores, exactly one array of N numbers is printed, the
\* batch the scorer saw has the pair (query, passages[i]) at position i, and
\* the printed number at position i is the score returned at position i.
C1_OrderPreserved ==
    (Done /\ ListRequest /\ Len(stdin.passages.s) > 0 /\ returned.kind = "floats")
    => /\ Emitted
       /\ Len(stdout) = 1
       /\ stdout[1].kind = "array"
       /\ Len(stdout[1].s) = Len(stdin.passages.s)
       /\ Len(calls) = 1
       /\ Len(calls[1]) = Len(stdin.passages.s)
       /\ \A i \in 1..Len(stdin.passages.s) :
             /\ calls[1][i] = <<stdin.query, stdin.passages.s[i]>>
             /\ stdout[1].s[i] = returned.s[i]

\* two different passages with two different scores came out in input order
C1_Witness ==
    /\ Done /\ Emitted /\ ListRequest
    /\ Len(stdin.passages.s) = 2
    /\ stdin.passages.s[1] # stdin.passages.s[2]
    /\ returned.kind = "floats"
    /\ returned.s[1] # returned.s[2]
    /\ stdout = <<Val("array", 0, returned.s)>>

\* C2: a request with a string query and an empty passages list prints []
\* and returns, and on that execution the scoring library is never loaded,
\* the scorer never constructed and never called, so [] is the result even
\* when the scoring capability is unavailable.
C2_EmptyNeverAcquires ==
    (stdin.kind = "dict" /\ stdin.query.kind = "str" /\ stdin.passages = JList(<<>>))
    => /\ ~Happened(AcquireSteps \cup ScoreSteps)
       /\ Done => (Emitted /\ stdout = <<EmptyArray>>)

\* C3: every failure to acquire the scorer, the library missing or the
\* constructor failing, ends in the handled way: a message on stderr, the
\* process exiting with status 1 by sys.exit, and nothing on stdout.
C3_AcquireFailureHandled ==
    (Done /\ Happened(AcquireFailures))
    => /\ outcome = "exit1"
       /\ stderr # <<>>
       /\ stdout = <<>>

\* C4: a request whose query is present but no string, or whose passages is
\* present but no list, fails, prints nothing, and never reaches the scorer.
C4_WrongTypeIsFatal ==
    (/\ Done
     /\ stdin.kind = "dict"
     /\ stdin.query # Absent
     /\ stdin.passages # Absent
     /\ (stdin.query.kind # "str" \/ stdin.passages.kind # "list"))
    => /\ Failed
       /\ stdout = <<>>
       /\ calls = <<>>

\* C5: input that is not JSON fails with the decoder's error, and JSON
\* lacking "query" or "passages" fails with the lookup's error (KeyError, or
\* TypeError when the document is no object), whether or not the scoring
\* library is available; the error is uncaught and nothing is printed.
C5_InputErrorsRegardless ==
    /\ (Done /\ stdin.kind = "malformed")
       => (outcome = "raised" /\ exc = "JSONDecodeError" /\ stdout = <<>>)
    /\ (Done /\ stdin.kind # "malformed"
             /\ (stdin.query = Absent \/ stdin.passages = Absent))
       => (outcome = "raised" /\ exc \in {"KeyError", "TypeError"} /\ stdout = <<>>)

\* C6: whenever the scorer answered a request with a passages list, what is
\* printed is an array as long as passages; in particular a bare float s
\* returned for a single passage is printed as the one-element array [s].
C6_AlwaysSequence ==
    (Done /\ ListRequest /\ returned # Unbound)
    => /\ Emitted
       /\ Len(stdout) = 1
       /\ stdout[1].kind = "array"
       /\ Len(stdout[1].s) = Len(stdin.passages.s)
       /\ (returned.kind = "float" => stdout = <<Val("array", 0, <<returned.n>>)>>)

\* one passage, a bare float from the scorer, a one-element array printed
C6_Witness ==
    /\ Done /\ Emitted /\ ListRequest
    /\ Len(stdin.passages.s) = 1
    /\ returned.kind = "float"
    /\ stdout = <<Val("array", 0, <<returned.n>>)>>

\* C7: at most one payload is ever written; it is written only on the way
\* to a normal return and is then complete (an array with as many numbers as
\* passages has items, [] for empty passages); a failed execution has
\* written nothing.
C7_NoPartialResult ==
    /\ Len(stdout) <= 1
    /\ (stdout # <<>>)
       => /\ pc \in {"return", "done"}
          /\ ~Failed
          /\ stdout[1].kind = "array"
          /\ Len(stdout[1].s) = Len(Items(passages))
          /\ (returned # Unbound => stdout[1].s = ReturnedNumbers)
    /\ Failed => stdout = <<>>
    /\ (Done /\ Emitted) => Len(stdout) = 1

\* the scorer raised on a batch of two pairs and nothing had been printed
C7_Witness ==
    /\ Done /\ outcome = "raised" /\ exc = "ScorerError"
    /\ Len(calls) = 1 /\ Len(calls[1]) = 2
    /\ stdout = <<>>

\* C8: the printed numbers are exactly the numbers the scorer returned, in
\* the same order (only a bare float is wrapped); so scores within [0, 1]
\* are printed within [0, 1], and [0.9, 0.1] returned for the request
\* ("cats", ["cats are mammals", "dogs bark"]) is printed as [0.9, 0.1].
C8_PassThrough ==
    /\ (stdout # <<>> /\ returned # Unbound)
       => /\ stdout[1] = Val("array", 0, ReturnedNumbers)
          /\ (InUnit(ReturnedNumbers) => InUnit(stdout[1].s))
    /\ (/\ Done
        /\ stdin = Doc("dict", JStr(<<"cats">>),
                       JList(<<"cats are mammals", "dogs bark">>))
        /\ returned = PyFloats(<<9, 1>>))
       => stdout = <<Val("array", 0, <<9, 1>>)>>

\* a score outside [0, 1] was returned and printed unchanged
C8_Witness ==
    /\ Done /\ Emitted
    /\ returned # Unbound
    /\ ~InUnit(ReturnedNumbers)
    /\ stdout = <<Val("array", 0, ReturnedNumbers)>>

\* C9: a capability failure is reported only after the request was read
\* and found to hold non-empty passages; before the input is read only an
\* input failure can end the invocation.
C9_CapabilityFailureAfterValidation ==
    \A i \in 1..Len(trace) :
        trace[i] \in AcquireFailures
        => /\ \E j \in 1..(i - 1) : trace[j] = "read"
           /\ passages # Unbound
           /\ Truthy(passages)

\* C10: the scorer is called at most once, with the whole batch of pairs
\* (query, passages[i]) in input order; a failed acquisition or a failed
\* scoring call is the last step of its kind (no second attempt) and the
\* invocation ends failed.
C10_OneBatchNoRetry ==
    /\ Len(calls) <= 1
    /\ Cardinality({i \in 1..Len(trace) : trace[i] \in ScoreSteps}) = Len(calls)
    /\ Cardinality({i \in 1..Len(trace) : trace[i] \in {"construct", "construct_failed"}}) <= 1
    /\ Cardinality({i \in 1..Len(trace) : trace[i] \in {"import", "import_failed"}}) <= 1
    /\ (calls # <<>> /\ ListRequest)
       => calls[1] = [i \in 1..Len(stdin.passages.s) |->
                        <<stdin.query, stdin.passages.s[i]>>]
    /\ \A i \in 1..Len(trace) :
          trace[i] \in AcquireFailures \cup {"score_failed"}
          => (i = Len(trace) /\ Done /\ Failed)

\* one call with a batch of two pairs, answered, and the result printed
C10_Witness ==
    /\ Done /\ Emitted
    /\ Len(calls) = 1
    /\ Len(calls[1]) = 2
    /\ calls[1][1] # calls[1][2]
    /\ trace = <<"import", "read", "construct", "score">>

====
